---- MODULE Spec2Model ----
(***************************************************************************)
(* Dune: Awakening Crafting API (src/main.py).                             *)
(*                                                                         *)
(* The item store (table Item of dune_crafting.db), the startup hook       *)
(* on_startup, the response builder create_item_response, the three rate   *)
(* limited GET handlers and the per-endpoint, per-origin limiter.          *)
(*                                                                         *)
(* Text is modelled as a sequence of one-character strings so that         *)
(* lower() and the LIKE match are computed character by character.         *)
(***************************************************************************)
EXTENDS Integers, Sequences, FiniteSets, TLC

VARIABLES
    store,      \* rows of table Item, in rowid order
    runs,       \* how many times the process has been started
    phase,      \* "boot" | "serving" | "failed": the process's lifecycle
    boot,       \* what the last on_startup run did
    hits,       \* the limiter's counters, per endpoint and origin
    request,    \* the last request received
    response    \* the answer to it

vars == <<store, runs, phase, boot, hits, request, response>>

----------------------------------------------------------------------------
(* Bounds of the model *)

MaxMats == 2
MaxQty == 5
MaxItems == 2
MaxRecords == 2
MaxTermLen == 2
MaxRequests == 2
MaxRuns == 2
MaxBackground == 1

----------------------------------------------------------------------------
(* Program constants: the ceilings of the three @limiter.limit decorators *)

LIST_LIMIT == 20
GET_LIMIT == 60
SEARCH_LIMIT == 10

Endpoints == {"get_all_items", "get_item_by_id", "search_items_by_name"}

Limit(e) ==
    IF e = "get_all_items" THEN LIST_LIMIT
    ELSE IF e = "get_item_by_id" THEN GET_LIMIT
    ELSE SEARCH_LIMIT

\* get_remote_address: the key of a request is its client address
Origins == {"10.0.0.1", "10.0.0.2"}

Keys == Endpoints \X Origins

----------------------------------------------------------------------------
(* Data model *)

CraftingMaterial(n, q) == [item_name |-> n, quantity |-> q]

ItemType == {"Weapon", "Armor", "Tool", "Component", "Consumable", "Building", "Vehicle"}

\* A record of items_data.json: an Item without its id
Record(n, d, t, pc, pg, mats) ==
    [name |-> n, description |-> d, item_type |-> t,
     power_consumption |-> pc, power_generation |-> pg,
     crafting_materials |-> mats]

\* The row the store keeps for a record: the record plus the assigned id
Item(i, r) ==
    [id |-> i, name |-> r.name, description |-> r.description,
     item_type |-> r.item_type,
     power_consumption |-> r.power_consumption,
     power_generation |-> r.power_generation,
     crafting_materials |-> r.crafting_materials]

----------------------------------------------------------------------------
(* Text: lower() and LIKE as SQLite computes them on ASCII text *)

Chars == {"a", "b", "A", "_"}

LowerChar(c) == IF c = "A" THEN "a" ELSE IF c = "B" THEN "b" ELSE c

lower(s) == [i \in 1..Len(s) |-> LowerChar(s[i])]

\* s LIKE p, no ESCAPE clause: % matches any run of characters, _ any one
RECURSIVE Like(_, _)
Like(s, p) ==
    IF p = <<>> THEN s = <<>>
    ELSE IF Head(p) = "%" THEN
        Like(s, Tail(p)) \/ (s # <<>> /\ Like(Tail(s), p))
    ELSE
        /\ s # <<>>
        /\ (Head(p) = "_" \/ Head(p) = Head(s))
        /\ Like(Tail(s), Tail(p))

\* Item.name.ilike(f"%{name}%"): lower(name) LIKE lower('%' || term || '%')
ilike(column, name) == Like(lower(column), lower(<<"%">> \o name \o <<"%">>))

----------------------------------------------------------------------------
(* The store's queries *)

\* session.exec(select(Item)).first()
first(st) == IF st = <<>> THEN <<>> ELSE <<st[1]>>

\* db.exec(select(Item)).all()
select_all(st) == st

\* db.get(Item, item_id): the row with that primary key, or none
db_get(st, item_id) == SelectSeq(st, LAMBDA row : row.id = item_id)

\* db.exec(select(Item).where(Item.name.ilike(...))).all()
select_ilike(st, name) == SelectSeq(st, LAMBDA row : ilike(row.name, name))

----------------------------------------------------------------------------
(* create_item_response *)

\* Halving that rounds down
deep_desert_quantity_floor(q) == q \div 2

\* (mat['quantity'] + 1) // 2
deep_desert_quantity(q) == (q + 1) \div 2

create_item_response(db_item) ==
    LET mats == db_item.crafting_materials
        dd_materials ==
            [i \in 1..Len(mats) |->
                CraftingMaterial(mats[i].item_name,
                                 deep_desert_quantity(mats[i].quantity))]
    IN  [id |-> db_item.id, name |-> db_item.name,
         description |-> db_item.description,
         item_type |-> db_item.item_type,
         power_consumption |-> db_item.power_consumption,
         power_generation |-> db_item.power_generation,
         crafting_materials |-> db_item.crafting_materials,
         deep_desert_materials |-> dd_materials]

Responses(rows) == [i \in 1..Len(rows) |-> create_item_response(rows[i])]

----------------------------------------------------------------------------
(* The handlers' results. A body is a sequence of item responses; the one    *)
(* object get_item_by_id returns is a body of length one, and an error       *)
(* answer has an empty body.                                                 *)

HttpResponse(code, items) == [status |-> code, body |-> items]

NoResponse == HttpResponse(0, <<>>)

get_all_items_handler(st) == HttpResponse(200, Responses(select_all(st)))

\* get_item_by_id without its "if not db_item" branch
get_item_by_id_unchecked(st, item_id) ==
    HttpResponse(200, Responses(db_get(st, item_id)))

get_item_by_id_handler(st, item_id) ==
    LET db_item == db_get(st, item_id)
    IN  IF db_item = <<>> THEN HttpResponse(404, <<>>)
        ELSE HttpResponse(200, <<create_item_response(db_item[1])>>)

search_items_by_name_handler(st, name) ==
    LET results_from_db == select_ilike(st, name)
    IN  IF results_from_db = <<>> THEN HttpResponse(404, <<>>)
        ELSE HttpResponse(200, Responses(results_from_db))

----------------------------------------------------------------------------
(* on_startup *)

Absent == "absent"          \* items_data.json does not exist
Malformed == "malformed"    \* items_data.json is not JSON
Unread == "unread"          \* on_startup returned before open()

\* An items_data.json that parses: the sequence of its records
Parsed(records) == [kind |-> "json", records |-> records]

FileAbsent == [kind |-> Absent, records |-> <<>>]
FileMalformed == [kind |-> Malformed, records |-> <<>>]
FileUnread == [kind |-> Unread, records |-> <<>>]

Outcome(st, err) == [store |-> st, raised |-> err]

\* json.load(f) with the json module imported
json_load_imported(file) ==
    IF file.kind = Malformed THEN [raised |-> "JSONDecodeError", value |-> <<>>]
    ELSE [raised |-> "none", value |-> file.records]

\* json.load(f): main.py never imports json, so the name lookup raises
json_load(file) == [raised |-> "NameError", value |-> <<>>]

\* The rows a flush of the added items writes: ids follow the rowids in use
Inserted(st, items_data) ==
    st \o [i \in 1..Len(items_data) |-> Item(Len(st) + i, items_data[i])]

UniqueNames(rows) ==
    \A i, j \in 1..Len(rows) : rows[i].name = rows[j].name => i = j

\* session.add(item) for every record, then session.commit(): one
\* transaction, rolled back as a whole when the unique index on name rejects
\* a row
add_all_and_commit(st, items_data) ==
    IF UniqueNames(Inserted(st, items_data))
    THEN Outcome(Inserted(st, items_data), "none")
    ELSE Outcome(st, "IntegrityError")

\* a loader that commits after every session.add
RECURSIVE add_and_commit_each(_, _)
add_and_commit_each(st, items_data) ==
    IF items_data = <<>> THEN Outcome(st, "none")
    ELSE IF UniqueNames(Inserted(st, <<Head(items_data)>>))
    THEN add_and_commit_each(Inserted(st, <<Head(items_data)>>), Tail(items_data))
    ELSE Outcome(st, "IntegrityError")

\* on_startup with json imported and a commit after every session.add
on_startup_autocommit(st, file) ==
    IF first(st) # <<>> THEN Outcome(st, "none")
    ELSE IF file.kind = Absent THEN Outcome(st, "FileNotFoundError")
    ELSE LET items_data == json_load_imported(file)
         IN  IF items_data.raised # "none" THEN Outcome(st, items_data.raised)
             ELSE add_and_commit_each(st, items_data.value)

\* on_startup with json imported and without the check for existing rows
on_startup_unguarded(st, file) ==
    IF file.kind = Absent THEN Outcome(st, "FileNotFoundError")
    ELSE LET items_data == json_load_imported(file)
         IN  IF items_data.raised # "none" THEN Outcome(st, items_data.raised)
             ELSE add_all_and_commit(st, items_data.value)

\* The body of on_startup: the store it leaves and the exception it raises
on_startup_run(st, file) ==
    IF first(st) # <<>> THEN Outcome(st, "none")
    ELSE IF file.kind = Absent THEN Outcome(st, "FileNotFoundError")
    ELSE LET items_data == json_load(file)
         IN  IF items_data.raised # "none" THEN Outcome(st, items_data.raised)
             ELSE add_all_and_commit(st, items_data.value)

----------------------------------------------------------------------------
(* Inputs: catalog contents, dataset files, request parameters *)

RECURSIVE SeqsUpTo(_, _)
SeqsUpTo(S, n) ==
    IF n = 0 THEN {<<>>}
    ELSE LET shorter == SeqsUpTo(S, n - 1)
         IN  shorter \cup {Append(s, x) : s \in shorter, x \in S}

Ornithopter ==
    Record(<<"A", "b">>, "Ornithopter", "Vehicle", 5, 0,
           <<CraftingMaterial("Plastanium", 7)>>)

Shield ==
    Record(<<"b", "a">>, "Energy Shield Generator", "Building", 11, 0,
           <<CraftingMaterial("Spice", 10), CraftingMaterial("Plastanium", 11)>>)

Stillsuit ==
    Record(<<"a", "_">>, "Stillsuit", "Armor", 0, 0,
           <<CraftingMaterial("Spice", 0), CraftingMaterial("Fiber", 1)>>)

Records == {Ornithopter, Shield, Stillsuit}

\* Dataset files: missing, not JSON, or an array of records (which may name
\* one item twice)
Files ==
    {FileAbsent, FileMalformed} \cup {Parsed(rs) : rs \in SeqsUpTo(Records, MaxRecords)}

\* What dune_crafting.db can hold when the process starts: nothing, or rows
\* written under the table's constraints (unique name, ids from the rowid
\* sequence) by an earlier run or release against the same file
Stores ==
    {Inserted(<<>>, rs) : rs \in {x \in SeqsUpTo(Records, MaxItems) :
                                    UniqueNames(Inserted(<<>>, x))}}

MaterialNames == {"Plastanium", "Spice"}

Materials == {CraftingMaterial(n, q) : n \in MaterialNames, q \in 0..MaxQty}

\* One-item catalogs over every material list within the bounds
ProjectorStores ==
    {Inserted(<<>>, <<Record(<<"A", "b">>, "Ornithopter", "Vehicle", 5, 0, mats)>>) :
        mats \in SeqsUpTo(Materials, MaxMats)}

RateStore == Inserted(<<>>, <<Ornithopter>>)

ItemIds == 0..(MaxItems + 1)

Terms == SeqsUpTo(Chars, MaxTermLen)

\* The client of the catalog scenarios
Client == "10.0.0.1"

----------------------------------------------------------------------------
(* State *)

NoRequest == [endpoint |-> "none", origin |-> "none", item_id |-> 0, name |-> <<>>]

NotRun == [raised |-> "not run", file |-> FileUnread]

NoHits == [k \in Keys |-> 0]

Fresh ==
    /\ runs = 1
    /\ phase = "boot"
    /\ boot = NotRun
    /\ hits = NoHits
    /\ request = NoRequest
    /\ response = NoResponse

Init == Fresh /\ store \in Stores

InitProjector == Fresh /\ store \in ProjectorStores

InitRate == Fresh /\ store = RateStore

----------------------------------------------------------------------------
(* Startup and restart *)

\* @app.on_event("startup"): an exception leaving the hook fails the
\* application's startup and the server exits without serving
on_startup ==
    /\ phase = "boot"
    /\ \E file \in Files :
         LET ran == on_startup_run(store, file)
         IN  /\ store' = ran.store
             /\ boot' = [raised |-> ran.raised,
                         file |-> IF first(store) # <<>> THEN FileUnread ELSE file]
             /\ phase' = IF ran.raised = "none" THEN "serving" ELSE "failed"
    /\ UNCHANGED <<runs, hits, request, response>>

\* The process is started again on the same database file: the limiter of
\* the new process starts with empty in-memory counters
Restart ==
    /\ phase \in {"serving", "failed"}
    /\ runs < MaxRuns
    /\ runs' = runs + 1
    /\ phase' = "boot"
    /\ boot' = NotRun
    /\ hits' = NoHits
    /\ request' = NoRequest
    /\ response' = NoResponse
    /\ UNCHANGED store

----------------------------------------------------------------------------
(* The limiter and the endpoints *)

\* A ceiling that admits one request too many
Admitted_inclusive(e, count) == count <= Limit(e)

\* @limiter.limit("N/minute"): a request is admitted while fewer than N were
\* admitted for its endpoint and origin in the current window
Admitted(e, count) == count < Limit(e)

\* The window of one endpoint and origin runs out
WindowExpires ==
    /\ phase = "serving"
    /\ \E k \in Keys :
         /\ hits[k] > 0
         /\ hits' = [hits EXCEPT ![k] = 0]
    /\ UNCHANGED <<store, runs, phase, boot, request, response>>

\* A decorated endpoint: the limiter answers 429 without calling the
\* handler, or counts the request and lets the handler answer
Limited(e, o, item_id, name, answer) ==
    /\ phase = "serving"
    /\ request' = [endpoint |-> e, origin |-> o, item_id |-> item_id, name |-> name]
    /\ IF Admitted(e, hits[<<e, o>>])
       THEN /\ hits' = [hits EXCEPT ![<<e, o>>] = @ + 1]
            /\ response' = answer
       ELSE /\ hits' = hits
            /\ response' = HttpResponse(429, <<>>)
    /\ UNCHANGED <<runs, phase, boot>>

\* create_item_response writing the halved quantities back to the row
Halved(st) ==
    [i \in 1..Len(st) |->
        [st[i] EXCEPT !.crafting_materials =
            create_item_response(st[i]).deep_desert_materials]]

get_all_items_writeback(o) ==
    /\ Limited("get_all_items", o, 0, <<>>, get_all_items_handler(store))
    /\ store' = IF Admitted("get_all_items", hits[<<"get_all_items", o>>])
                THEN Halved(store) ELSE store

get_all_items(o) ==
    /\ Limited("get_all_items", o, 0, <<>>, get_all_items_handler(store))
    /\ UNCHANGED store

get_item_by_id(o, item_id) ==
    /\ Limited("get_item_by_id", o, item_id, <<>>,
               get_item_by_id_handler(store, item_id))
    /\ UNCHANGED store

search_items_by_name(o, name) ==
    /\ Limited("search_items_by_name", o, 0, name,
               search_items_by_name_handler(store, name))
    /\ UNCHANGED store

----------------------------------------------------------------------------
(* Traffic *)

RECURSIVE SumHits(_, _)
SumHits(h, ks) ==
    IF ks = {} THEN 0
    ELSE LET k == CHOOSE x \in ks : TRUE IN h[k] + SumHits(h, ks \ {k})

\* Catalog scenarios: one client, a few requests per window
Light == SumHits(hits, Keys) < MaxRequests

\* Limiter scenarios: requests are offered so that one endpoint and origin
\* at a time is driven to its ceiling and past it, while all the others
\* together have had at most MaxBackground requests in their windows
Flood(e, o) ==
    LET offered == [hits EXCEPT ![<<e, o>>] = @ + 1]
    IN  \E flooded \in Keys : SumHits(offered, Keys \ {flooded}) <= MaxBackground

GetAllItems == Light /\ get_all_items(Client)

GetItemById == Light /\ \E item_id \in ItemIds : get_item_by_id(Client, item_id)

SearchItemsByName == Light /\ \E name \in Terms : search_items_by_name(Client, name)

FloodAllItems == \E o \in Origins : Flood("get_all_items", o) /\ get_all_items(o)

FloodItemById ==
    \E o \in Origins : \E item_id \in {1, 2} :
        Flood("get_item_by_id", o) /\ get_item_by_id(o, item_id)

FloodSearch ==
    \E o \in Origins : \E name \in {<<"a">>, <<"a", "a">>} :
        Flood("search_items_by_name", o) /\ search_items_by_name(o, name)

----------------------------------------------------------------------------
(* Specifications *)

Next ==
    \/ on_startup
    \/ Restart
    \/ WindowExpires
    \/ GetAllItems
    \/ GetItemById
    \/ SearchItemsByName

Spec == Init /\ [][Next]_vars

NextProjector ==
    \/ on_startup
    \/ Restart
    \/ WindowExpires
    \/ GetAllItems
    \/ GetItemById

SpecProjector == InitProjector /\ [][NextProjector]_vars

NextRate ==
    \/ on_startup
    \/ Restart
    \/ WindowExpires
    \/ FloodAllItems
    \/ FloodItemById
    \/ FloodSearch

SpecRate == InitRate /\ [][NextRate]_vars

----------------------------------------------------------------------------
(* Vocabulary of the claims *)

\* ceil(q / 2): the least n with 2n >= q
CeilHalf(q) == CHOOSE n \in 0..q : 2 * n >= q /\ 2 * (n - 1) < q

SameLetter(c, d) == c = d \/ {c, d} = {"a", "A"} \/ {c, d} = {"b", "B"}

\* term occurs in text as a contiguous run of characters, letters compared
\* without regard to case
Contains(text, term) ==
    \E at \in 0..(Len(text) - Len(term)) :
        \A j \in 1..Len(term) : SameLetter(text[at + j], term[j])

Rows(st) == {st[k] : k \in 1..Len(st)}

Answered == response.status \in {200, 404}

\* The store as the dataset's records in order, with ids 1..n
Loaded(records) == [i \in 1..Len(records) |-> Item(i, records[i])]

StartedEmpty == phase # "boot" /\ boot.file.kind # Unread

----------------------------------------------------------------------------
(* C1: every item response carries the stored item's fields unchanged, and  *)
(* its deep_desert_materials has the length of crafting_materials, the same *)
(* item_name at every position and ceil(q/2) as the quantity at every       *)
(* position.                                                                *)
C1_DeepDesertIsCeilHalf ==
    \A i \in 1..Len(response.body) :
        LET view == response.body[i]
        IN  \E item \in Rows(store) :
              /\ item.id = view.id
              /\ view.name = item.name
              /\ view.description = item.description
              /\ view.item_type = item.item_type
              /\ view.power_consumption = item.power_consumption
              /\ view.power_generation = item.power_generation
              /\ view.crafting_materials = item.crafting_materials
              /\ Len(view.deep_desert_materials) = Len(item.crafting_materials)
              /\ \A j \in 1..Len(item.crafting_materials) :
                   /\ view.deep_desert_materials[j].item_name =
                        item.crafting_materials[j].item_name
                   /\ view.deep_desert_materials[j].quantity =
                        CeilHalf(item.crafting_materials[j].quantity)

C1_Witness ==
    /\ response.status = 200
    /\ \E i \in 1..Len(response.body) :
         LET view == response.body[i]
         IN  /\ Len(view.crafting_materials) = 2
             /\ view.crafting_materials[1] = CraftingMaterial("Spice", 3)
             /\ view.crafting_materials[2] = CraftingMaterial("Plastanium", 0)
             /\ view.deep_desert_materials[1] = CraftingMaterial("Spice", 2)
             /\ view.deep_desert_materials[2] = CraftingMaterial("Plastanium", 0)

(* C2: an answered search-by-name returns exactly the stored items whose    *)
(* name contains the term as a substring, compared case-insensitively.      *)
C2_SearchIsSubstringMatch ==
    (request.endpoint = "search_items_by_name" /\ Answered) =>
        {view.id : view \in Rows(response.body)} =
            {item.id : item \in {x \in Rows(store) : Contains(x.name, request.name)}}

C4_StartupLoadsDataset ==
    (StartedEmpty /\ boot.file.kind = "json"
                  /\ UniqueNames(Loaded(boot.file.records))) =>
        /\ phase = "serving"
        /\ store = Loaded(boot.file.records)
        /\ (request.endpoint = "get_all_items" /\ Answered) =>
              Len(response.body) = Len(boot.file.records)

(* C5: startup on an empty store with the dataset file absent does not      *)
(* fail: the store stays empty and the service reaches the serving state.   *)
C5_AbsentFileIsNotFatal ==
    (StartedEmpty /\ boot.file.kind = Absent) =>
        /\ boot.raised = "none"
        /\ phase = "serving"
        /\ store = <<>>

(* C6: a start or restart of the process against a store that holds at      *)
(* least one item leaves every row of the store as it was.                  *)
C6_RestartKeepsRows ==
    [][((phase = "boot" \/ phase' = "boot") /\ store # <<>>) => store' = store]_vars

C6_Witness ==
    /\ runs >= 2
    /\ phase = "serving"
    /\ boot.raised = "none"
    /\ Len(store) = 2

(* C7: per endpoint and origin at most N requests are admitted in a window, *)
(* N = 20 for list-all, 60 for get-by-id, 10 for search-by-name; a request  *)
(* beyond N is answered 429 and not 200 or 404; a request changes no        *)
(* counter but that of its own endpoint and origin.                         *)
Ceiling(e) ==
    IF e = "get_all_items" THEN 20
    ELSE IF e = "get_item_by_id" THEN 60
    ELSE 10

C7_RequestStep ==
    /\ phase = "serving" /\ phase' = "serving"
    /\ \A k \in Keys : hits'[k] >= hits[k]

C7_RateCeilings ==
    /\ [](\A k \in Keys : hits[k] <= Ceiling(k[1]))
    /\ [][C7_RequestStep =>
            LET k == <<request'.endpoint, request'.origin>>
            IN  /\ \A other \in Keys \ {k} : hits'[other] = hits[other]
                /\ IF hits[k] < Ceiling(k[1])
                   THEN hits'[k] = hits[k] + 1 /\ response'.status \in {200, 404}
                   ELSE hits'[k] = hits[k] /\ response'.status = 429
                                           /\ response'.body = <<>>]_vars

C7_Witness ==
    /\ hits[<<"get_item_by_id", "10.0.0.1">>] = 60
    /\ request.endpoint = "get_item_by_id"
    /\ request.origin = "10.0.0.1"
    /\ response.status = 429
    /\ hits[<<"get_all_items", "10.0.0.1">>] = 1

C9_UniqueAndConstraintViolation ==
    /\ \A x, y \in 1..Len(store) :
          (store[x].name = store[y].name \/ store[x].id = store[y].id) => x = y
    /\ (StartedEmpty /\ boot.file.kind = "json"
                     /\ ~UniqueNames(Loaded(boot.file.records))) =>
          boot.raised = "IntegrityError"

(* C10: once startup has finished, no request, answered 200, 404 or 429,    *)
(* changes the store.                                                       *)
C10_RequestsLeaveStore ==
    [][(phase = "serving" /\ phase' = "serving") => store' = store]_vars

C10_Witness ==
    /\ phase = "serving"
    /\ store # <<>>
    /\ request.endpoint = "get_all_items"
    /\ response.status = 429
    /\ hits[<<"search_items_by_name", "10.0.0.2">>] = 1

====
